---- MODULE Spec2Model ----
(***************************************************************************)
(* Model of eventhandlers/nova_evacuate_vms.py: the target host selection  *)
(* (_get_target_host) and the evacuation loop that drives it, together     *)
(* with the part of the nova cluster the script talks to (the hypervisor   *)
(* listing, the live server listing, the server groups and the             *)
(* asynchronous rebuild of an evacuated server); of the start of the       *)
(* script (the gate on the probe state, the nova-compute pre-check and the *)
(* fetch of the inventory); and of the exit states of the two plugins,     *)
(* plugins/check_tempest.py and plugins/check_graphite.py.                 *)
(*                                                                         *)
(* Units: vcpus are counted as in nova; ram / memory_mb are counted in     *)
(* abstract memory units (one unit is the ram of the smallest flavor).     *)
(***************************************************************************)
EXTENDS Integers, Sequences, FiniteSets, TLC

(***************************************************************************)
(* Bounds of the model.                                                    *)
(***************************************************************************)
\* number of servers known to nova (ids 1..NumServers)
NumServers == 4
\* largest vcpus / memory_mb a hypervisor declares (the other value is 1)
MaxCap == 3
\* how many API calls of one run may raise (evacuate, status listing)
MaxFaults == 1
\* most tests a tempest run holds
MaxTests == 6
\* most series a graphite reply holds, and most datapoints of a series
MaxSeries == 3
MaxPoints == 2

(***************************************************************************)
(* Program constants.                                                      *)
(***************************************************************************)
\* parser.add_argument('--wait-timeout', ..., default=10, ...)
DefaultWaitTimeout == 10
\* time.sleep(3)
PollInterval == 3

\* State ID values for HOST states in nagios
UP == 0
DOWN == 1
UNREACHABLE == 2

\* the nagios states a plugin exits with
STATE_OK == 0
STATE_WARNING == 1
STATE_CRITICAL == 2

\* args.compute_host: the failed host whose servers are evacuated
compute_host == "compute5"

\* the hostnames of the hypervisor listing
Hostnames == {"compute1", "compute2", "compute5"}

\* _get_target_host returning None
None == "None"

ServerIds == 1..NumServers

\* flavors = {flavor.id: flavor for flavor in nova.flavors.list()}
flavors ==
  [small |-> [vcpus |-> 1, ram |-> 1],
   large |-> [vcpus |-> 2, ram |-> 2]]

FlavorIds == DOMAIN flavors

\* the failure details the loop records
MsgNoHost == "Failed to get a host."
MsgManual == "VM is in ERROR or UNKNOWN status, needs manual migration"
\* str(e) of an exception raised by vm.evacuate
MsgEvacuate == "evacuate: HTTP 500"
\* str(e) of an exception raised by nova.servers.list while polling
MsgList == "servers.list: HTTP 500"
\* str(e) of timedelta(seconds=<str>): --wait-timeout has no type=int, so a
\* value given on the command line reaches timedelta as a string
MsgTimedelta == "unsupported type for timedelta seconds component: str"

VARIABLES
  hypervisors,   \* nova.hypervisors.list(): hostname -> [state, vcpus, memory_mb]
  order,         \* iteration order of a dict keyed by hostname (fixed per run)
  servers,       \* nova.servers.list(): id -> [host, flavor, status]
  server_groups, \* nova.server_groups.list(): sequence of [policy, members]
  wait_timeout,  \* args.wait_timeout: "default" (the int 10) or "str"
  vms,           \* the listing of line 121: sequence of server ids
  pending,       \* cluster: id -> host an accepted evacuate is moving it to
  pc,            \* position of the script
  i,             \* index into vms of the server the for loop is at
  target,        \* the loop's variable target
  elapsed,       \* datetime.now() - start, in seconds
  results,       \* results = {'success': [], 'failures': []}
  faults,        \* number of API calls that raised so far
  calls,         \* history: every _get_target_host call [vm, ret, seen]
  issued,        \* history: every vm.evacuate call [vm, target, accepted]
  polled,        \* history: what the polls since the last accepted evacuate showed
  args,          \* parser.parse_args() of the program that runs
  services,      \* nova.services.list(host, binary): the states of the records
  exit_code,     \* the exit status of the process, None while it runs
  api,           \* history: the nova calls made before the loop [call, raised]
  tests,         \* check_tempest: what the nose run will find [run, failures, errors]
  response       \* check_graphite: what the render query will answer

vars == <<hypervisors, order, servers, server_groups, wait_timeout, vms,
          pending, pc, i, target, elapsed, results, faults, calls, issued,
          polled, args, services, exit_code, api, tests, response>>

\* the variables the evacuation loop leaves alone
front == <<args, services, exit_code, api, tests, response>>

(***************************************************************************)
(* _get_target_host                                                        *)
(***************************************************************************)
\* FitsFlavor with the memory test left out
FitsFlavor_VcpusOnly(vm_flavor, host) ==
  ~(vm_flavor.vcpus > host.vcpus)

\* vm_flavor.vcpus > host.vcpus or vm_flavor.ram > host.memory_mb: continue
FitsFlavor(vm_flavor, host) ==
  ~(vm_flavor.vcpus > host.vcpus \/ vm_flavor.ram > host.memory_mb)

\* the dict targets: the hypervisors that are up and meet the VM's flavor
Targets(vm) ==
  {h \in Hostnames :
     /\ hypervisors[h].state = "up"
     /\ FitsFlavor(flavors[servers[vm].flavor], hypervisors[h])}

\* the first key of a dict with keys S, in the dict's iteration order
FirstKey(S) ==
  LET k == CHOOSE n \in 1..Len(order) :
             /\ order[n] \in S
             /\ \A m \in 1..(n - 1) : order[m] \notin S
  IN order[k]

\* return None if not targets else targets.keys()[0]
DefaultHost(vm) == IF Targets(vm) = {} THEN None ELSE FirstKey(Targets(vm))

\* the index of the first group that has vm as a member, 0 when there is none
GroupOf(vm) ==
  LET has == {n \in 1..Len(server_groups) : vm \in server_groups[n].members}
  IN IF has = {} THEN 0 ELSE CHOOSE n \in has : \A m \in has : n <= m

\* current_host_group / anti_affinity_host_group: the hosts of the members
MemberHosts(members) == {servers[m].host : m \in members}

RECURSIVE SumVcpus(_)
\* vcpus += flavors[vms[m].flavor['id']].vcpus
SumVcpus(members) ==
  IF members = {} THEN 0
  ELSE LET m == CHOOSE x \in members : TRUE
       IN flavors[servers[m].flavor].vcpus + SumVcpus(members \ {m})

RECURSIVE SumRam(_)
\* memory += flavors[vms[m].flavor['id']].ram
SumRam(members) ==
  IF members = {} THEN 0
  ELSE LET m == CHOOSE x \in members : TRUE
       IN flavors[servers[m].flavor].ram + SumRam(members \ {m})

\* if vcpus < host.vcpus and memory < host.memory_mb
HoldsGroup(members, host) ==
  SumVcpus(members) < host.vcpus /\ SumRam(members) < host.memory_mb

\* the affinity branch (lines 171-195); falls out of the for loop to the
\* final return when it returns nothing itself
AffinityHost(vm, members) ==
  LET current_host_group == MemberHosts(members)
      roomy == {h \in Targets(vm) : HoldsGroup(members, hypervisors[h])}
  IN IF Cardinality(current_host_group) = 2
       THEN CHOOSE h \in current_host_group \ {compute_host} : TRUE
     ELSE IF Cardinality(current_host_group) = 1 /\ roomy # {}
       THEN FirstKey(roomy)
     ELSE DefaultHost(vm)

\* AntiAffinityHost with the final return in place of the return None
AntiAffinityHost_FallsBack(vm, members) ==
  LET free == Targets(vm) \ MemberHosts(members)
  IN IF free = {} THEN DefaultHost(vm) ELSE FirstKey(free)

\* the anti-affinity branch (lines 196-208)
AntiAffinityHost(vm, members) ==
  LET free == Targets(vm) \ MemberHosts(members)
  IN IF free = {} THEN None ELSE FirstKey(free)

\* the members of the first group that has vm as a member
MembersOf(vm) ==
  IF GroupOf(vm) = 0 THEN {} ELSE server_groups[GroupOf(vm)].members

\* flavors[vm.flavor['id']] raises KeyError: it is evaluated for the first
\* hypervisor that is up (line 159)
FlavorKeyError(vm) ==
  /\ servers[vm].flavor \notin FlavorIds
  /\ \E h \in Hostnames : hypervisors[h].state = "up"

\* the loop over group.members raises KeyError: vms[m] for a member the
\* listing lacks (lines 179, 201), flavors[vms[m].flavor['id']] for a member
\* of an affinity group whose flavor the table lacks (line 181)
MemberKeyError(vm) ==
  \/ \E m \in MembersOf(vm) : m \notin ServerIds
  \/ /\ GroupOf(vm) # 0
     /\ server_groups[GroupOf(vm)].policy = "affinity"
     /\ \E m \in MembersOf(vm) \cap ServerIds : servers[m].flavor \notin FlavorIds

\* a lookup of the try block raises
KeyErrorRaised(vm) == FlavorKeyError(vm) \/ MemberKeyError(vm)

\* GetTargetHost with an except clause that goes on to the final return
\* (with the targets built so far) instead of returning None
GetTargetHost_ExceptFallsThrough(vm) ==
  LET g == GroupOf(vm)
  IN IF FlavorKeyError(vm) THEN None
     ELSE IF MemberKeyError(vm) THEN DefaultHost(vm)
     ELSE IF g = 0 THEN DefaultHost(vm)
     ELSE IF server_groups[g].policy = "affinity"
       THEN AffinityHost(vm, server_groups[g].members)
     ELSE AntiAffinityHost(vm, server_groups[g].members)

\* try: ... except Exception: return None, and the final return
GetTargetHost(vm) ==
  LET g == GroupOf(vm)
  IN IF KeyErrorRaised(vm) THEN None
     ELSE IF g = 0 THEN DefaultHost(vm)
     ELSE IF server_groups[g].policy = "affinity"
       THEN AffinityHost(vm, server_groups[g].members)
     ELSE AntiAffinityHost(vm, server_groups[g].members)

\* what a call records: the server, the host returned, whether the try
\* block raised, the policy and the members of the server's group, the hosts
\* the members were seen on in the live listing and the members seen away
\* from the failed host
CallRecord(vm) ==
  LET g == GroupOf(vm)
      members == MembersOf(vm)
      listed == members \cap ServerIds
  IN [vm |-> vm,
      ret |-> GetTargetHost(vm),
      raised |-> KeyErrorRaised(vm),
      policy |-> IF g = 0 THEN "none" ELSE server_groups[g].policy,
      members |-> members,
      seen |-> MemberHosts(listed),
      away |-> {m \in listed : servers[m].host # compute_host}]

(***************************************************************************)
(* The inventories a run can meet.                                         *)
(***************************************************************************)
Capacities == {1, MaxCap}

\* the failed host may still be listed as 'up'; its capacity is the largest
HypervisorSets ==
  {hv \in [Hostnames -> [state : {"down", "up"},
                         vcpus : Capacities,
                         memory_mb : Capacities]] :
     /\ hv[compute_host].vcpus = MaxCap
     /\ hv[compute_host].memory_mb = MaxCap}

\* the failed host comes first, second or last in a dict's iteration order
\* (the other two hosts are interchangeable)
Orders ==
  {<<"compute5", "compute1", "compute2">>,
   <<"compute1", "compute5", "compute2">>,
   <<"compute1", "compute2", "compute5">>}

\* no group, or one group of the first k servers
GroupLayouts ==
  {<<>>} \cup
  {<<[policy |-> p, members |-> 1..k]>> :
     p \in {"affinity", "anti-affinity"}, k \in {2, NumServers}}

\* the id of a server that is a member of a group but not in the listing of
\* nova.servers.list()
Missing == NumServers + 1

\* one group of the first two servers and of a server the listing lacks
BrokenGroupLayouts ==
  {<<[policy |-> p, members |-> {1, 2, Missing}]>> :
     p \in {"affinity", "anti-affinity"}}

\* the id of a flavor that is not in the table of nova.flavors.list()
Gone == "gone"

\* the flavors of the servers: the first two have any flavor
FlavorLayouts ==
  {f \in [ServerIds -> FlavorIds] : \A v \in ServerIds : v > 2 => f[v] = "small"}

\* the inventories of a whole run: the other hosts are up, compute1 is the
\* smallest host and compute2 declares as many memory units as vcpus
RunHypervisorSets ==
  {hv \in HypervisorSets :
     /\ hv["compute1"] = [state |-> "up", vcpus |-> 1, memory_mb |-> 1]
     /\ hv["compute2"].state = "up"
     /\ hv["compute2"].vcpus = hv["compute2"].memory_mb}

\* the flavors of the servers of a whole run: the first server is small
RunFlavorLayouts == {f \in FlavorLayouts : f[1] = "small"}

\* the groups of a whole run: none, an affinity group of the first two or of
\* all servers, or an anti-affinity group of all servers
RunGroupLayouts ==
  {g \in GroupLayouts :
     \A n \in 1..Len(g) :
       g[n].policy = "anti-affinity" => g[n].members = ServerIds}

\* the servers of search_opts={'host': args.compute_host}, in listing order
RECURSIVE Listing(_, _)
Listing(srv, n) ==
  IF n = 0 THEN <<>>
  ELSE IF srv[n].host = compute_host
    THEN Append(Listing(srv, n - 1), n)
  ELSE Listing(srv, n - 1)

\* the types of the state of the event handler
TypeOK ==
  /\ hypervisors \in HypervisorSets
  /\ order \in Orders
  /\ server_groups \in GroupLayouts \cup BrokenGroupLayouts
  /\ wait_timeout \in {"default", "str"}
  /\ pc \in {"gate", "client", "precheck", "listvms", "flavors", "select",
             "evacuate", "poll", "done", "call", "called", "main", "exit"}
  /\ target \in Hostnames \cup {None}
  /\ faults \in 0..MaxFaults

(***************************************************************************)
(* The evacuation loop (lines 221-247).                                    *)
(***************************************************************************)
vm == vms[i]

\* the for loop moves on to the next server, or ends
NextVm ==
  /\ i' = i + 1
  /\ pc' = IF i + 1 > Len(vms) THEN "done" ELSE "select"
  /\ target' = None
  /\ elapsed' = 0

AddFailure(detail) ==
  results' = [results EXCEPT !.failures = Append(@, <<vm, detail>>)]

AddSuccess ==
  results' = [results EXCEPT !.success = Append(@, <<vm, target>>)]

\* Select without the continue: the loop goes on to vm.evacuate with the
\* target it has
Select_NoContinue ==
  /\ pc = "select"
  /\ calls' = Append(calls, CallRecord(vm))
  /\ IF GetTargetHost(vm) = None
       THEN /\ AddFailure(MsgNoHost)
            /\ target' = None
            /\ pc' = "evacuate"
            /\ UNCHANGED <<i, elapsed>>
       ELSE /\ target' = GetTargetHost(vm)
            /\ pc' = "evacuate"
            /\ UNCHANGED <<i, elapsed, results>>
  /\ UNCHANGED <<hypervisors, order, servers, server_groups, wait_timeout,
                 vms, pending, faults, issued, polled>>
  /\ UNCHANGED front

\* target = _get_target_host(vm); if not target: ... continue
Select ==
  /\ pc = "select"
  /\ calls' = Append(calls, CallRecord(vm))
  /\ IF GetTargetHost(vm) = None
       THEN /\ AddFailure(MsgNoHost)
            /\ NextVm
       ELSE /\ target' = GetTargetHost(vm)
            /\ pc' = "evacuate"
            /\ UNCHANGED <<i, elapsed, results>>
  /\ UNCHANGED <<hypervisors, order, servers, server_groups, wait_timeout,
                 vms, pending, faults, issued, polled>>
  /\ UNCHANGED front

\* target = _get_target_host(vm) when one of its listing calls raises
\* (nova.servers.list, nova.hypervisors.list, nova.server_groups.list):
\* except Exception: return None; if not target: ... continue
SelectRaises ==
  /\ pc = "select"
  /\ faults < MaxFaults
  /\ faults' = faults + 1
  /\ calls' = Append(calls, [CallRecord(vm) EXCEPT !.ret = None,
                                                   !.raised = TRUE])
  /\ AddFailure(MsgNoHost)
  /\ NextVm
  /\ UNCHANGED <<hypervisors, order, servers, server_groups, wait_timeout,
                 vms, pending, issued, polled>>
  /\ UNCHANGED front

\* vm.evacuate(target, True) is accepted: the cluster will rebuild the server
\* on target later; start = datetime.now()
EvacuateAccepted ==
  /\ pc = "evacuate"
  /\ issued' = Append(issued, [vm |-> vm, target |-> target, accepted |-> TRUE])
  /\ pending' = [pending EXCEPT ![vm] = target]
  /\ elapsed' = 0
  /\ polled' = {}
  /\ pc' = "poll"
  /\ UNCHANGED <<hypervisors, order, servers, server_groups, wait_timeout,
                 vms, i, target, results, faults, calls>>
  /\ UNCHANGED front

\* EvacuateRaises with the loop ended after the failure is recorded
EvacuateRaises_Break ==
  /\ pc = "evacuate"
  /\ faults < MaxFaults
  /\ faults' = faults + 1
  /\ issued' = Append(issued, [vm |-> vm, target |-> target, accepted |-> FALSE])
  /\ AddFailure(MsgEvacuate)
  /\ pc' = "done"
  /\ i' = Len(vms) + 1
  /\ target' = None
  /\ elapsed' = 0
  /\ UNCHANGED <<hypervisors, order, servers, server_groups, wait_timeout,
                 vms, pending, calls, polled>>
  /\ UNCHANGED front

\* vm.evacuate(target, True) raises: except Exception as e
EvacuateRaises ==
  /\ pc = "evacuate"
  /\ faults < MaxFaults
  /\ faults' = faults + 1
  /\ issued' = Append(issued, [vm |-> vm, target |-> target, accepted |-> FALSE])
  /\ AddFailure(MsgEvacuate)
  /\ NextVm
  /\ UNCHANGED <<hypervisors, order, servers, server_groups, wait_timeout,
                 vms, pending, calls, polled>>
  /\ UNCHANGED front

\* cvm = nova.servers.list(search_opts={'name': vm.name}), followed by the
\* code up to the next listing: the while condition, the status test and the
\* sleep, or the test after the loop.  Time passes in the sleeps only (the
\* listings take none), so with the default timeout the status is tested in
\* the loop at 0, 3, 6 and 9 seconds and once more, after the loop, at 12.
Poll ==
  /\ pc = "poll"
  /\ LET status == servers[vm].status
     IN /\ polled' = polled \cup {status}
        /\ IF wait_timeout = "str"
             THEN \* timedelta(seconds=args.wait_timeout) raises TypeError
                  /\ AddFailure(MsgTimedelta)
                  /\ NextVm
           ELSE IF elapsed < DefaultWaitTimeout
             THEN IF status = "ACTIVE"
                    THEN /\ AddSuccess
                         /\ NextVm
                    ELSE \* time.sleep(3)
                         /\ elapsed' = elapsed + PollInterval
                         /\ UNCHANGED <<pc, i, target, results>>
           ELSE IF status # "ACTIVE"
             THEN /\ AddFailure(MsgManual)
                  /\ NextVm
           ELSE /\ NextVm
                /\ UNCHANGED results
  /\ UNCHANGED <<hypervisors, order, servers, server_groups, wait_timeout,
                 vms, pending, faults, calls, issued>>
  /\ UNCHANGED front

\* the listing of a poll raises: except Exception as e
PollRaises ==
  /\ pc = "poll"
  /\ faults < MaxFaults
  /\ faults' = faults + 1
  /\ polled' = polled \cup {"raised"}
  /\ AddFailure(MsgList)
  /\ NextVm
  /\ UNCHANGED <<hypervisors, order, servers, server_groups, wait_timeout,
                 vms, pending, calls, issued>>
  /\ UNCHANGED front

(***************************************************************************)
(* The cluster: it rebuilds an evacuated server asynchronously.  The       *)
(* script sees the status of a server only in the polls of that server,    *)
(* and the host of a server only in the listing of _get_target_host, so a  *)
(* step of the cluster is taken right before the observation it can        *)
(* change: taken earlier it would lead to the same observations.           *)
(***************************************************************************)
\* the rebuild starts: the server is no longer shown ACTIVE
ClusterBegin(v) ==
  /\ pc = "poll" /\ v = vm
  /\ pending[v] # None
  /\ servers[v].status = "ACTIVE"
  /\ servers' = [servers EXCEPT ![v].status = "REBUILD"]
  /\ UNCHANGED <<hypervisors, order, server_groups, wait_timeout, vms,
                 pending, pc, i, target, elapsed, results, faults, calls,
                 issued, polled>>
  /\ UNCHANGED front

\* the rebuild ends: the server is ACTIVE on the host it was sent to
ClusterFinish(v) ==
  /\ pc = "select" \/ (pc = "poll" /\ v = vm)
  /\ pending[v] # None
  /\ servers' = [servers EXCEPT ![v].status = "ACTIVE",
                                ![v].host = pending[v]]
  /\ pending' = [pending EXCEPT ![v] = None]
  /\ UNCHANGED <<hypervisors, order, server_groups, wait_timeout, vms, pc,
                 i, target, elapsed, results, faults, calls, issued, polled>>
  /\ UNCHANGED front

\* the rebuild fails: the server stays where it was, in ERROR
ClusterFail(v) ==
  /\ pc = "poll" /\ v = vm
  /\ pending[v] # None
  /\ servers[v].status = "REBUILD"
  /\ servers' = [servers EXCEPT ![v].status = "ERROR"]
  /\ pending' = [pending EXCEPT ![v] = None]
  /\ UNCHANGED <<hypervisors, order, server_groups, wait_timeout, vms, pc,
                 i, target, elapsed, results, faults, calls, issued, polled>>
  /\ UNCHANGED front

(***************************************************************************)
(* A run of the script, from the listing of line 121 on.                   *)
(***************************************************************************)
\* the nova calls of the start of the script, all answered
CallsOfStart ==
  <<[call |-> "Client", raised |-> FALSE],
    [call |-> "services.list", raised |-> FALSE],
    [call |-> "servers.list", raised |-> FALSE],
    [call |-> "flavors.list", raised |-> FALSE]>>

\* the start of the script went through: the probe is DOWN and HARD, the one
\* nova-compute record of the failed host is down and the listings answered
StartPassed ==
  /\ args = [state |-> "DOWN", state_type |-> "HARD",
             unreachable_is_down |-> FALSE]
  /\ services = <<"down">>
  /\ exit_code = None
  /\ api = CallsOfStart
  /\ tests = None
  /\ response = None

\* every server of the tenant is on the failed host and shown ACTIVE
Init ==
  /\ StartPassed
  /\ hypervisors \in RunHypervisorSets
  /\ order = <<"compute1", "compute2", "compute5">>
  /\ servers \in {[v \in ServerIds |->
                     [host |-> compute_host, flavor |-> f[v], status |-> "ACTIVE"]] :
                    f \in RunFlavorLayouts}
  /\ server_groups \in RunGroupLayouts
  /\ wait_timeout \in {"default", "str"}
  /\ vms = Listing(servers, NumServers)
  /\ pending = [v \in ServerIds |-> None]
  /\ pc = "select"
  /\ i = 1
  /\ target = None
  /\ elapsed = 0
  /\ results = [success |-> <<>>, failures |-> <<>>]
  /\ faults = 0
  /\ calls = <<>>
  /\ issued = <<>>
  /\ polled = {}

Next ==
  \/ Select
  \/ SelectRaises
  \/ EvacuateAccepted
  \/ EvacuateRaises
  \/ Poll
  \/ PollRaises
  \/ \E v \in ServerIds : ClusterBegin(v)
  \/ \E v \in ServerIds : ClusterFinish(v)
  \/ \E v \in ServerIds : ClusterFail(v)

Spec == Init /\ [][Next]_vars

\* the runs in which the hypervisor listing agrees that the failed host is
\* down and --wait-timeout is left at its default
InitDown ==
  /\ Init
  /\ hypervisors[compute_host].state = "down"
  /\ wait_timeout = "default"

SpecDown == InitDown /\ [][Next]_vars

\* the runs on an inventory that may be out of step: the first two servers
\* are on the failed host and the others on another host (of an earlier run,
\* say), a server may have a flavor the table lacks and a group may have a
\* member the listing lacks
InitWide ==
  /\ StartPassed
  /\ hypervisors \in RunHypervisorSets
  /\ hypervisors[compute_host].state = "down"
  /\ order = <<"compute1", "compute2", "compute5">>
  /\ servers \in {[v \in ServerIds |->
                     [host |-> IF v <= 2 THEN compute_host ELSE h,
                      flavor |-> f[v], status |-> "ACTIVE"]] :
                    h \in Hostnames \ {compute_host},
                    f \in {g \in [ServerIds -> FlavorIds \cup {Gone}] :
                             \A v \in ServerIds : v > 2 => g[v] = "small"}}
  /\ server_groups \in GroupLayouts \cup BrokenGroupLayouts
  /\ wait_timeout = "default"
  /\ vms = Listing(servers, NumServers)
  /\ pending = [v \in ServerIds |-> None]
  /\ pc = "select"
  /\ i = 1
  /\ target = None
  /\ elapsed = 0
  /\ results = [success |-> <<>>, failures |-> <<>>]
  /\ faults = 0
  /\ calls = <<>>
  /\ issued = <<>>
  /\ polled = {}

SpecWide == InitWide /\ [][Next]_vars

(***************************************************************************)
(* The start of the script (lines 71-132): the gate on the probe state,    *)
(* the nova client, the nova-compute pre-check and the fetch of the        *)
(* inventory.                                                              *)
(***************************************************************************)
\* what the program queries
world == <<hypervisors, order, servers, server_groups, services, tests,
           response>>

\* the variables of the evacuation loop
loop == <<pending, i, target, elapsed, calls, issued, polled>>

\* Python values: a str of the command line, an int of the script
PyStr(s) == [type |-> "str", val |-> s]
PyInt(n) == [type |-> "int", val |-> n]

\* a == b in Python 2: values of different types are not equal
PyEq(a, b) == a.type = b.type /\ a.val = b.val

\* down_states = [DOWN]; if args.unreachable_is_down: append(UNREACHABLE)
down_states ==
  IF args.unreachable_is_down
    THEN {PyInt(DOWN), PyInt(UNREACHABLE)}
    ELSE {PyInt(DOWN)}

\* args.state not in down_states (args.state is parsed with type=str)
NotInDownStates == ~\E d \in down_states : PyEq(PyStr(args.state), d)

\* sys.exit(code), or the end of the process by an uncaught exception
Exit(code) ==
  /\ pc' = "exit"
  /\ exit_code' = code

\* if args.state_type != 'HARD' and args.state not in down_states: exit(0)
Gate ==
  /\ pc = "gate"
  /\ IF args.state_type # "HARD" /\ NotInDownStates
       THEN Exit(0)
       ELSE pc' = "client" /\ UNCHANGED exit_code
  /\ UNCHANGED <<world, loop, wait_timeout, args, vms, results, faults, api>>

\* nova = nclient.Client(...)
CreateClient ==
  /\ pc = "client"
  /\ api' = Append(api, [call |-> "Client", raised |-> FALSE])
  /\ pc' = "precheck"
  /\ UNCHANGED <<world, loop, wait_timeout, args, vms, results, faults,
                 exit_code>>

\* nclient.Client(...) raises: sys.exit(-1)
CreateClientRaises ==
  /\ pc = "client"
  /\ api' = Append(api, [call |-> "Client", raised |-> TRUE])
  /\ faults' = faults + 1
  /\ Exit(-1)
  /\ UNCHANGED <<world, loop, wait_timeout, args, vms, results>>

\* PreCheck with the test of the state of the record left out
PreCheck_AnyState ==
  /\ pc = "precheck"
  /\ api' = Append(api, [call |-> "services.list", raised |-> FALSE])
  /\ IF Len(services) # 1
       THEN Exit(-1)
       ELSE pc' = "listvms" /\ UNCHANGED exit_code
  /\ UNCHANGED <<world, loop, wait_timeout, args, vms, results, faults>>

\* service_state = nova.services.list(host, binary='nova-compute'); exit
\* unless there is one record and service_state.pop().state is 'down'
PreCheck ==
  /\ pc = "precheck"
  /\ api' = Append(api, [call |-> "services.list", raised |-> FALSE])
  /\ IF Len(services) # 1
       THEN Exit(-1)
     ELSE IF services[Len(services)] # "down"
       THEN Exit(-1)
     ELSE pc' = "listvms" /\ UNCHANGED exit_code
  /\ UNCHANGED <<world, loop, wait_timeout, args, vms, results, faults>>

\* nova.services.list raises: except Exception: sys.exit(-1)
PreCheckRaises ==
  /\ pc = "precheck"
  /\ api' = Append(api, [call |-> "services.list", raised |-> TRUE])
  /\ faults' = faults + 1
  /\ Exit(-1)
  /\ UNCHANGED <<world, loop, wait_timeout, args, vms, results>>

\* vms = nova.servers.list(search_opts={'host': args.compute_host})
ListVms ==
  /\ pc = "listvms"
  /\ api' = Append(api, [call |-> "servers.list", raised |-> FALSE])
  /\ vms' = Listing(servers, NumServers)
  /\ pc' = "flavors"
  /\ UNCHANGED <<world, loop, wait_timeout, args, results, faults, exit_code>>

\* ListVmsRaises with the failure logged and the script going on with no VM
ListVmsRaises_Continue ==
  /\ pc = "listvms"
  /\ api' = Append(api, [call |-> "servers.list", raised |-> TRUE])
  /\ faults' = faults + 1
  /\ pc' = "flavors"
  /\ UNCHANGED <<world, loop, wait_timeout, args, vms, results, exit_code>>

\* the listing of line 121 raises: except Exception: sys.exit(-1)
ListVmsRaises ==
  /\ pc = "listvms"
  /\ api' = Append(api, [call |-> "servers.list", raised |-> TRUE])
  /\ faults' = faults + 1
  /\ Exit(-1)
  /\ UNCHANGED <<world, loop, wait_timeout, args, vms, results>>

\* flavors_list = nova.flavors.list() and the table built from it; then
\* results = {'success': [], 'failures': []} and the for loop is entered
ListFlavors ==
  /\ pc = "flavors"
  /\ api' = Append(api, [call |-> "flavors.list", raised |-> FALSE])
  /\ results' = [success |-> <<>>, failures |-> <<>>]
  /\ pc' = IF vms = <<>> THEN "done" ELSE "select"
  /\ UNCHANGED <<world, loop, wait_timeout, args, vms, faults, exit_code>>

\* nova.flavors.list() raises: the call is in no try block, the exception
\* ends the process with a traceback and status 1
ListFlavorsRaises ==
  /\ pc = "flavors"
  /\ api' = Append(api, [call |-> "flavors.list", raised |-> TRUE])
  /\ faults' = faults + 1
  /\ Exit(1)
  /\ UNCHANGED <<world, loop, wait_timeout, args, vms, results>>

\* what nagios passes as the state of the probe: $HOSTSTATEID$ or $HOSTSTATE$
ProbeStates == {"0", "1", "2", "UP", "DOWN", "UNREACHABLE"}

\* what nova.services.list returns: the states of up to two records
ServiceListings ==
  {<<>>} \cup {<<a>> : a \in {"down", "up"}}
         \cup {<<a, b>> : a \in {"down", "up"}, b \in {"down", "up"}}

\* the script is started by nagios: any probe state and state type, any
\* answer of the service listing; the first two servers may be on the failed
\* host, the servers are in no group
InitRun ==
  /\ args \in [state : ProbeStates, state_type : {"HARD", "SOFT"},
                unreachable_is_down : BOOLEAN]
  /\ services \in ServiceListings
  /\ exit_code = None
  /\ api = <<>>
  /\ tests = None
  /\ response = None
  /\ hypervisors \in RunHypervisorSets
  /\ hypervisors[compute_host].state = "down"
  /\ hypervisors["compute2"].vcpus = MaxCap
  /\ order = <<"compute1", "compute2", "compute5">>
  /\ servers \in {[v \in ServerIds |->
                     [host |-> IF v <= 2 THEN h[v] ELSE "compute2",
                      flavor |-> "small", status |-> "ACTIVE"]] :
                    h \in [1..2 -> {compute_host, "compute2"}]}
  /\ server_groups = <<>>
  /\ wait_timeout = "default"
  /\ vms = <<>>
  /\ pending = [v \in ServerIds |-> None]
  /\ pc = "gate"
  /\ i = 1
  /\ target = None
  /\ elapsed = 0
  /\ results = <<>>
  /\ faults = 0
  /\ calls = <<>>
  /\ issued = <<>>
  /\ polled = {}

NextRun ==
  \/ Gate
  \/ CreateClient
  \/ CreateClientRaises
  \/ PreCheck
  \/ PreCheckRaises
  \/ ListVms
  \/ ListVmsRaises
  \/ ListFlavors
  \/ ListFlavorsRaises
  \/ Next

SpecRun == InitRun /\ [][NextRun]_vars

(***************************************************************************)
(* _get_target_host on its own: one call for a server of the failed host,  *)
(* in an inventory where the other servers are on any host.                *)
(***************************************************************************)
InitCall ==
  /\ StartPassed
  /\ hypervisors \in HypervisorSets
  /\ order \in Orders
  /\ servers \in {[v \in ServerIds |->
                     [host |-> h[v], flavor |-> f[v], status |-> "ACTIVE"]] :
                    h \in {g \in [ServerIds -> Hostnames] : g[1] = compute_host},
                    f \in FlavorLayouts}
  /\ server_groups \in GroupLayouts
  /\ wait_timeout = "default"
  /\ vms = Listing(servers, NumServers)
  /\ pending = [v \in ServerIds |-> None]
  /\ pc = "call"
  /\ i = 1
  /\ target = None
  /\ elapsed = 0
  /\ results = [success |-> <<>>, failures |-> <<>>]
  /\ faults = 0
  /\ calls = <<>>
  /\ issued = <<>>
  /\ polled = {}

\* target = _get_target_host(vm) for the first server of the listing
Call ==
  /\ pc = "call"
  /\ calls' = Append(calls, CallRecord(vm))
  /\ target' = GetTargetHost(vm)
  /\ pc' = "called"
  /\ UNCHANGED <<hypervisors, order, servers, server_groups, wait_timeout,
                 vms, pending, i, elapsed, results, faults, issued, polled>>
  /\ UNCHANGED front

NextCall == Call

SpecCall == InitCall /\ [][NextCall]_vars

\* the calls in which the hypervisor listing agrees that the failed host is
\* down
InitCallDown ==
  /\ InitCall
  /\ hypervisors[compute_host].state = "down"

SpecCallDown == InitCallDown /\ [][NextCall]_vars

(***************************************************************************)
(* The plugins: each is a process of its own, which parses its command     *)
(* line, makes one query and exits with a nagios state.                    *)
(***************************************************************************)
\* a plugin runs: there is no evacuation
NoEvacuation ==
  /\ hypervisors = <<>>
  /\ order = <<>>
  /\ servers = <<>>
  /\ server_groups = <<>>
  /\ services = <<>>
  /\ wait_timeout = "default"
  /\ vms = <<>>
  /\ pending = <<>>
  /\ i = 1
  /\ target = None
  /\ elapsed = 0
  /\ results = <<>>
  /\ calls = <<>>
  /\ issued = <<>>
  /\ polled = {}
  /\ api = <<>>

\* what a plugin leaves alone
idle == <<hypervisors, order, servers, server_groups, services, wait_timeout,
          vms, pending, i, target, elapsed, results, calls, issued, polled,
          api, args, tests, response>>

\* nose.run(argv=[...]): True when no test failed and none ended in error
NoseSuccess == tests.failures = 0 /\ tests.errors = 0

\* check_tempest(args): the state it returns
check_tempest ==
  IF NoseSuccess THEN STATE_OK
  ELSE IF args.failiswarn THEN STATE_WARNING
  ELSE STATE_CRITICAL

\* check_tempest.py, __main__: check_tempest(args) returns, the value is
\* dropped (it is not passed to sys.exit) and the script ends: status 0
TempestMain ==
  /\ pc = "main"
  /\ check_tempest \in {STATE_OK, STATE_WARNING, STATE_CRITICAL}
  /\ Exit(0)
  /\ UNCHANGED <<idle, faults>>

\* check_tempest.py, __main__: nose.run raises: traceback.print_exc() and
\* sys.exit(STATE_CRITICAL)
TempestRaises ==
  /\ pc = "main"
  /\ faults' = faults + 1
  /\ Exit(STATE_CRITICAL)
  /\ UNCHANGED idle

\* what a run of the tests can find: tests run, failed and ended in error
NoseOutcomes ==
  {o \in [run : 0..MaxTests, failures : 0..MaxTests, errors : 0..MaxTests] :
     o.failures + o.errors <= o.run}

InitTempest ==
  /\ NoEvacuation
  /\ args \in [failiswarn : BOOLEAN]
  /\ tests \in NoseOutcomes
  /\ response = None
  /\ pc = "main"
  /\ exit_code = None
  /\ faults = 0

NextTempest == TempestMain \/ TempestRaises

SpecTempest == InitTempest /\ [][NextTempest]_vars

\* jsonres = json.loads(result): each series is held as the length of its
\* list of datapoints, len(jsonres[k]['datapoints'])
jsonres == response.series

\* check_graphite(args), from the parsed reply on: the state it returns
check_graphite ==
  IF Len(jsonres) > 0 /\ jsonres[1] > 0 THEN STATE_OK
  ELSE IF args.failiswarn THEN STATE_WARNING
  ELSE STATE_CRITICAL

\* check_graphite.py, __main__: sys.exit(check_graphite(args)); when
\* json.loads raises (the body is not JSON): except Exception:
\* sys.exit(STATE_CRITICAL)
GraphiteMain ==
  /\ pc = "main"
  /\ IF response.body # "json"
       THEN Exit(STATE_CRITICAL) /\ faults' = faults + 1
       ELSE Exit(check_graphite) /\ UNCHANGED faults
  /\ UNCHANGED idle

\* check_graphite.py, __main__: urllib2.urlopen(query) raises: except
\* Exception: sys.exit(STATE_CRITICAL)
GraphiteRaises ==
  /\ pc = "main"
  /\ faults' = faults + 1
  /\ Exit(STATE_CRITICAL)
  /\ UNCHANGED idle

\* what the render query can answer: a JSON list of up to MaxSeries series
\* of up to MaxPoints datapoints each, or a body that is not JSON
GraphiteReplies ==
  {[body |-> "json", series |-> q] :
     q \in UNION {[1..n -> 0..MaxPoints] : n \in 0..MaxSeries}}
  \cup {[body |-> "text", series |-> <<>>]}

InitGraphite ==
  /\ NoEvacuation
  /\ args \in [failiswarn : BOOLEAN, verbose : BOOLEAN]
  /\ tests = None
  /\ response \in GraphiteReplies
  /\ pc = "main"
  /\ exit_code = None
  /\ faults = 0

NextGraphite == GraphiteMain \/ GraphiteRaises

SpecGraphite == InitGraphite /\ [][NextGraphite]_vars

(***************************************************************************)
(* Properties of _get_target_host.                                         *)
(***************************************************************************)
Returned == {n \in 1..Len(calls) : calls[n].ret # None}

\* the host is up and declares what the flavor of the server asks for
UpAndLargeEnough(v, h) ==
  /\ hypervisors[h].state = "up"
  /\ flavors[servers[v].flavor].vcpus <= hypervisors[h].vcpus
  /\ flavors[servers[v].flavor].ram <= hypervisors[h].memory_mb

\* the call went through the branch for an affinity group seen on two hosts
TwoHostsBranch(c) == c.policy = "affinity" /\ Cardinality(c.seen) = 2

\* C1: the host _get_target_host returns is never the failed host
\* (args.compute_host), whatever the hypervisor listing says of that host.
C1_NeverFailedHost ==
  \A n \in 1..Len(calls) : calls[n].ret # compute_host

\* C2 as stated: every host _get_target_host returns is up and declares at
\* least the vcpus and the memory of the flavor of the server being placed,
\* for every group policy.
C2_ReturnedHostEligible ==
  \A n \in Returned : UpAndLargeEnough(calls[n].vm, calls[n].ret)

\* C2 as amended: every host _get_target_host returns is up and declares at
\* least the vcpus and the memory of the flavor of the server being placed,
\* unless the server is in an affinity group whose members are on exactly
\* two distinct hosts (that branch returns the other host unchecked).
C2_ReturnedHostEligibleButTwoHosts ==
  \A n \in Returned :
    ~TwoHostsBranch(calls[n]) => UpAndLargeEnough(calls[n].vm, calls[n].ret)

\* a host was returned for a large server of an affinity group whose members
\* are all on one host
C2_Witness ==
  /\ pc = "called"
  /\ target # None
  /\ calls[1].policy = "affinity"
  /\ Cardinality(calls[1].seen) = 1
  /\ servers[calls[1].vm].flavor = "large"

\* the host can take the flavors of all the members together
TakesGroup(members, h) ==
  /\ SumVcpus(members) <= hypervisors[h].vcpus
  /\ SumRam(members) <= hypervisors[h].memory_mb

\* C6: called for a member of an affinity group whose members are all on one
\* host, _get_target_host returns a host that is up and can take the sum of
\* the flavors of all members, and returns None when no host that is up can
\* take that sum.
C6_FirstMoverGetsHostForGroup ==
  \A n \in 1..Len(calls) :
    LET c == calls[n]
    IN (c.policy = "affinity" /\ Cardinality(c.seen) = 1) =>
         IF \E h \in Hostnames :
              hypervisors[h].state = "up" /\ TakesGroup(c.members, h)
           THEN /\ c.ret # None
                /\ hypervisors[c.ret].state = "up"
                /\ TakesGroup(c.members, c.ret)
           ELSE c.ret = None

\* C7: called for a member of an affinity group whose members are on a
\* number of distinct hosts other than one or two, _get_target_host returns
\* None.
C7_ScatteredGroupGetsNone ==
  \A n \in 1..Len(calls) :
    (calls[n].policy = "affinity" /\ Cardinality(calls[n].seen) \notin {1, 2})
      => calls[n].ret = None

\* the hosts that are up and large enough for the server
Eligible(v) == {h \in Hostnames : UpAndLargeEnough(v, h)}

\* C17: called for a member of an anti-affinity group, _get_target_host
\* returns a host that is up, large enough for the server and on which no
\* member of the group is listed (so never the failed host), and returns
\* None when a member of the group is listed on every such host.
C17_AntiAffinityAvoidsMembers ==
  \A n \in 1..Len(calls) :
    LET c == calls[n]
    IN c.policy = "anti-affinity" =>
         IF Eligible(c.vm) \ c.seen = {}
           THEN c.ret = None
           ELSE /\ c.ret \in Eligible(c.vm) \ c.seen
                /\ c.ret # compute_host

\* the call returned None for a member of an anti-affinity group although
\* some host is up and large enough: each such host holds a member
C17_Witness ==
  /\ pc = "called"
  /\ calls[1].policy = "anti-affinity"
  /\ target = None
  /\ Eligible(calls[1].vm) # {}
  /\ Eligible(calls[1].vm) \subseteq calls[1].seen

(***************************************************************************)
(* Properties of a run.                                                    *)
(***************************************************************************)
\* two servers are members of one group with the policy
SameGroup(v, w, policy) ==
  \E n \in 1..Len(server_groups) :
    /\ server_groups[n].policy = policy
    /\ v \in server_groups[n].members
    /\ w \in server_groups[n].members

\* the move commands the cluster accepted
Accepted == {n \in 1..Len(issued) : issued[n].accepted}

\* C3: in one run no two members of an anti-affinity group are issued a move
\* command (one the cluster accepts) to the same target host.
C3_AntiAffinityTargetsDiffer ==
  \A n, m \in Accepted :
    (n # m /\ SameGroup(issued[n].vm, issued[m].vm, "anti-affinity"))
      => issued[n].target # issued[m].target

\* C4: in one run all members of an affinity group that are issued a move
\* command (one the cluster accepts) are sent to the same target host.
C4_AffinityTargetsAgree ==
  \A n, m \in Accepted :
    SameGroup(issued[n].vm, issued[m].vm, "affinity")
      => issued[n].target = issued[m].target

\* C5: once a call has seen exactly one member of an affinity group away
\* from the failed host, on host H, with all other members on the failed
\* host, every later call for a member of that group (whose listing calls
\* answer) returns H.
C5_LaterMembersFollowFirstMover ==
  \A n, m \in 1..Len(calls) :
    ( /\ n < m
      /\ ~calls[m].raised
      /\ calls[n].policy = "affinity"
      /\ calls[m].members = calls[n].members
      /\ Cardinality(calls[n].away) = 1
      /\ Cardinality(calls[n].seen) = 2 )
      => calls[m].ret \in calls[n].seen \ {compute_host}

\* the entries of a list of results for a server
Entries(list, v) == {n \in 1..Len(list) : list[n][1] = v}

\* how many entries the result set holds for a server
Outcomes(v) ==
  Cardinality(Entries(results.success, v)) +
  Cardinality(Entries(results.failures, v))

\* C8: when the loop has finished, every server of the listing has exactly
\* one entry in the result set, in success or in failures.
C8_OneOutcomePerServer ==
  pc = "done" => \A k \in 1..Len(vms) : Outcomes(vms[k]) = 1

\* the evacuate calls of a server
Evacuations(v) == {n \in 1..Len(issued) : issued[n].vm = v}

\* the polls of the last accepted evacuate are over and none showed ACTIVE
\* (nor raised)
NeverActive(v) ==
  /\ issued # <<>>
  /\ issued[Len(issued)].vm = v
  /\ issued[Len(issued)].accepted
  /\ ~(pc = "poll" /\ i <= Len(vms) /\ vms[i] = v)
  /\ polled # {}
  /\ polled \subseteq {"REBUILD", "ERROR"}

\* C9: if the move command of a server was accepted and no poll of its status
\* showed ACTIVE, then the server has exactly one outcome, the failure that
\* asks for manual migration, it was issued one move command, and the loop
\* has gone on.
C9_TimeoutIsOneManualFailure ==
  \A v \in ServerIds :
    NeverActive(v) =>
      /\ Entries(results.success, v) = {}
      /\ Cardinality(Entries(results.failures, v)) = 1
      /\ \A n \in Entries(results.failures, v) :
           results.failures[n] = <<v, MsgManual>>
      /\ Cardinality(Evacuations(v)) = 1
      /\ (pc = "done" \/ vms[i] # v)

\* C10: an exception raised by vm.evacuate for a server is recorded as a
\* failure of that server with the message of the exception, and the loop
\* goes on: when it has finished every server of the listing was evaluated
\* and every server that got a target was issued a move command to it.
C10_EvacuateErrorIsolated ==
  /\ \A n \in 1..Len(issued) :
       ~issued[n].accepted =>
         \E k \in 1..Len(results.failures) :
           results.failures[k] = <<issued[n].vm, MsgEvacuate>>
  /\ pc = "done" =>
       \A k \in 1..Len(vms) :
         /\ \E n \in 1..Len(calls) : calls[n].vm = vms[k]
         /\ \A n \in 1..Len(calls) :
              (calls[n].vm = vms[k] /\ calls[n].ret # None) =>
                \E m \in 1..Len(issued) :
                  issued[m].vm = vms[k] /\ issued[m].target = calls[n].ret

\* the run has finished, vm.evacuate raised for one server and a server
\* after it in the listing was issued its move command
C10_Witness ==
  /\ pc = "done"
  /\ \E n, m \in 1..Len(issued) :
       n < m /\ ~issued[n].accepted /\ issued[m].accepted

\* C19: every entry (server, T) of results['success'] is for a server that
\* has been relocated: the cluster has it on host T, which is not the failed
\* host; a first poll that still shows ACTIVE because the cluster has not
\* begun the rebuild gives no such entry.
C19_SuccessMeansRelocated ==
  \A n \in 1..Len(results.success) :
    LET v == results.success[n][1]
        T == results.success[n][2]
    IN servers[v].host = T /\ servers[v].host # compute_host

\* the failure 'Failed to get a host.' is recorded for the server
NoHostRecorded(v) ==
  \E k \in 1..Len(results.failures) : results.failures[k] = <<v, MsgNoHost>>

\* the call was for a server whose flavor no host that is up can take
NoCapacity(c) ==
  /\ servers[c.vm].flavor \in FlavorIds
  /\ Eligible(c.vm) = {}

\* C11 as stated: whenever _get_target_host returns None for a server, the
\* loop records the failure 'Failed to get a host.' for it and issues no
\* move command for it; and when no host that is up has the capacity for
\* the server's flavor, _get_target_host returns None and no move command
\* is issued for the server.
C11_NoTargetNoCommand ==
  \A n \in 1..Len(calls) :
    /\ calls[n].ret = None =>
         NoHostRecorded(calls[n].vm) /\ Evacuations(calls[n].vm) = {}
    /\ NoCapacity(calls[n]) =>
         calls[n].ret = None /\ Evacuations(calls[n].vm) = {}

\* C11 as amended: the same, except that the second part does not hold for
\* a server of an affinity group whose members are listed on exactly two
\* hosts (that branch returns the other host without looking at capacity).
C11_NoTargetNoCommandButTwoHosts ==
  \A n \in 1..Len(calls) :
    /\ calls[n].ret = None =>
         NoHostRecorded(calls[n].vm) /\ Evacuations(calls[n].vm) = {}
    /\ (NoCapacity(calls[n]) /\ ~TwoHostsBranch(calls[n])) =>
         calls[n].ret = None /\ Evacuations(calls[n].vm) = {}

\* the loop has finished and an earlier call (whose lookups and listing
\* calls went through) returned None for a server no host has the capacity
\* for, before a later server was handled
C11_Witness ==
  /\ pc = "done"
  /\ Len(calls) > 1
  /\ ~calls[1].raised
  /\ NoCapacity(calls[1])
  /\ ~TwoHostsBranch(calls[1])
  /\ calls[1].ret = None
  /\ NoHostRecorded(calls[1].vm)

\* the call could not read the inventory: a listing call or a lookup raised,
\* the flavor of the server is not in the flavor table, or a member of the
\* server's group is not in the listing of the servers
ReadFailed(c) ==
  \/ c.raised
  \/ servers[c.vm].flavor \notin FlavorIds
  \/ \E m \in c.members : m \notin ServerIds

\* C18: a call of _get_target_host that fails to read the inventory returns
\* None, the server gets the failure 'Failed to get a host.', no move
\* command is issued for it, and the loop goes on: when it has finished,
\* _get_target_host was called for every server of the listing.
C18_ReadFailureIsNoTarget ==
  /\ \A n \in 1..Len(calls) :
       ReadFailed(calls[n]) =>
         /\ calls[n].ret = None
         /\ NoHostRecorded(calls[n].vm)
         /\ Evacuations(calls[n].vm) = {}
  /\ pc = "done" =>
       \A k \in 1..Len(vms) : \E n \in 1..Len(calls) : calls[n].vm = vms[k]

\* the run has finished, the first call failed on a lookup and the server
\* after it in the listing was issued a move command the cluster accepted
C18_Witness ==
  /\ pc = "done"
  /\ Len(calls) > 1
  /\ calls[1].raised
  /\ faults = 0
  /\ NoHostRecorded(calls[1].vm)
  /\ \E m \in Accepted : issued[m].vm = calls[2].vm

(***************************************************************************)
(* Properties of the start of the script.                                  *)
(***************************************************************************)
\* the state of the probe the argument stands for
ProbeState(a) ==
  IF a \in {"0", "UP"} THEN UP
  ELSE IF a \in {"1", "DOWN"} THEN DOWN
  ELSE UNREACHABLE

\* the probe is DOWN (or UNREACHABLE with --unreachable-is-down) and HARD
DownAndHard ==
  /\ args.state_type = "HARD"
  /\ \/ ProbeState(args.state) = DOWN
     \/ args.unreachable_is_down /\ ProbeState(args.state) = UNREACHABLE

\* C15: the script goes past its gate only when the probe state is DOWN (or
\* UNREACHABLE with --unreachable-is-down) and the state type is HARD; for
\* every other pair it exits with no call to nova made.
C15_GateOnlyDownAndHard ==
  (pc # "gate" /\ ~DownAndHard) =>
    /\ pc = "exit"
    /\ api = <<>>
    /\ calls = <<>>
    /\ issued = <<>>

\* the call was made
Made(call) == \E n \in 1..Len(api) : api[n].call = call

\* the call was made and raised
Failed(call) == \E n \in 1..Len(api) : api[n].call = call /\ api[n].raised

\* the pre-check listed the services and found one record, in state 'down'
PreCheckFoundDown ==
  /\ Made("services.list")
  /\ ~Failed("services.list")
  /\ services = <<"down">>

\* C16: a move command is issued only in a run whose pre-check found exactly
\* one nova-compute record for the failed host, in state 'down'; when the
\* pre-check is over and found anything else (the service up, no record or
\* more than one, a listing that raised), the run has exited with no server
\* listed and no move command issued.
C16_NoMoveWithoutPreCheck ==
  /\ issued # <<>> => PreCheckFoundDown
  /\ (Made("services.list") /\ ~PreCheckFoundDown) =>
       /\ pc = "exit"
       /\ ~Made("servers.list")
       /\ calls = <<>>
       /\ issued = <<>>

\* the run exited at the pre-check because the one record is 'up'
C16_Witness ==
  /\ pc = "exit"
  /\ exit_code = -1
  /\ services = <<"up">>
  /\ Made("services.list")
  /\ ~Failed("services.list")

\* C12: when the listing of the servers of the failed host or the listing
\* of the flavors fails, the run ends: _get_target_host is never called, no
\* move command is issued and the result set is never created.
C12_FetchFailureAborts ==
  (Failed("servers.list") \/ Failed("flavors.list")) =>
    /\ pc = "exit"
    /\ calls = <<>>
    /\ issued = <<>>
    /\ DOMAIN results = {}

\* the listing of the flavors failed after servers to evacuate were listed
C12_Witness ==
  /\ Failed("flavors.list")
  /\ vms # <<>>
  /\ pc = "exit"

(***************************************************************************)
(* Properties of the plugins.                                              *)
(***************************************************************************)
\* C13: when check_tempest.py has exited after a run of the tests that did
\* not raise, its exit status is OK (0) if the tests succeeded, and if they
\* did not, WARNING (1) with --failiswarn and CRITICAL (2) without.
C13_ExitReflectsTests ==
  (pc = "exit" /\ faults = 0) =>
    exit_code = IF tests.failures = 0 /\ tests.errors = 0 THEN 0
                ELSE IF args.failiswarn THEN 1
                ELSE 2

\* the reply is a JSON list whose first series has a datapoint
HasData ==
  /\ faults = 0
  /\ response.body = "json"
  /\ Len(response.series) > 0
  /\ response.series[1] > 0

\* C14: when check_graphite.py has exited, its exit status is OK (0) exactly
\* when the query answered with at least one series and the first series
\* has at least one datapoint; on every failure (no data, an error of the
\* query or of the parsing) it is WARNING (1) with --failiswarn and
\* CRITICAL (2) without.
C14_ExitReflectsQuery ==
  pc = "exit" =>
    exit_code = IF HasData THEN 0
                ELSE IF args.failiswarn THEN 1
                ELSE 2

====
